---------------------------- MODULE Spec2Model ----------------------------
(***************************************************************************)
(* The OCI runtime configuration schema of src/lib.rs: every record type   *)
(* derives Default, a derive_builder Builder (struct-level default,        *)
(* setter(into)), and serde's Serialize and Deserialize, used with the     *)
(* JSON wire format.  The field tables below transcribe the structs and    *)
(* their serde attributes; DefaultOf, Setter, build, Serialize and         *)
(* Deserialize are what the derives expand to, interpreted over the        *)
(* tables.                                                                 *)
(***************************************************************************)
EXTENDS Integers, Sequences, FiniteSets, TLC

(***************************************************************************)
(* Field types.                                                            *)
(***************************************************************************)
U16 == [k |-> "u16", of |-> <<>>]
U32 == [k |-> "u32", of |-> <<>>]
U64 == [k |-> "u64", of |-> <<>>]
I32 == [k |-> "i32", of |-> <<>>]
I64 == [k |-> "i64", of |-> <<>>]
BoolT == [k |-> "bool", of |-> <<>>]
StringT == [k |-> "string", of |-> <<>>]
Option(T) == [k |-> "opt", of |-> T]
Vec(T) == [k |-> "vec", of |-> T]
HashMapOf(T) == [k |-> "map", of |-> T]
Struct(name) == [k |-> "rec", of |-> name]

IntKinds == {"u16", "u32", "u64", "i32", "i64"}

\* One struct field: its identifier, its wire key (serde rename, else the
\* identifier), its type, its skip_serializing_if predicate ("" when it has
\* none) and whether it carries serde's `default` attribute.
Field(name, key, ty, skip, dflt) ==
  [name |-> name, key |-> key, ty |-> ty, skip |-> skip, dflt |-> dflt]

\* struct Spec (lib.rs 25-52)
SpecFields ==
  <<
    Field("version", "ociVersion", StringT, "", FALSE),
    Field("process", "process", Option(Struct("Process")), "Option::is_none", FALSE),
    Field("root", "root", Option(Struct("Root")), "Option::is_none", FALSE),
    Field("hostname", "hostname", Option(StringT), "Option::is_none", FALSE),
    Field("mounts", "mounts", Vec(Struct("Mount")), "Vec::is_empty", FALSE),
    Field("hooks", "hooks", Option(Struct("Hooks")), "Option::is_none", FALSE),
    Field("annotations", "annotations", HashMapOf(StringT), "HashMap::is_empty", TRUE),
    Field("linux", "linux", Option(Struct("Linux")), "Option::is_none", FALSE)
  >>

\* struct Process (lib.rs 55-93)
ProcessFields ==
  <<
    Field("terminal", "terminal", Option(BoolT), "Option::is_none", FALSE),
    Field("console_size", "consoleSize", Option(Struct("ConsoleSizeBox")), "Option::is_none", FALSE),
    Field("user", "user", Struct("User"), "", FALSE),
    Field("args", "args", Vec(StringT), "Vec::is_empty", FALSE),
    Field("env", "env", Vec(StringT), "Vec::is_empty", FALSE),
    Field("cwd", "cwd", StringT, "", FALSE),
    Field("capabilities", "capabilities", Option(Struct("LinuxCapabilities")), "Option::is_none", FALSE),
    Field("rlimits", "rlimits", Vec(Struct("POSIXRlimit")), "Vec::is_empty", TRUE),
    Field("no_new_privileges", "noNewPrivileges", Option(BoolT), "Option::is_none", FALSE),
    Field("app_armor_profile", "apparmorProfile", Option(StringT), "Option::is_none", FALSE),
    Field("oom_score_adj", "oomScoreAdj", Option(I32), "Option::is_none", FALSE),
    Field("selinux_label", "selinuxLabel", Option(StringT), "Option::is_none", FALSE)
  >>

\* struct LinuxCapabilities (lib.rs 97-115)
LinuxCapabilitiesFields ==
  <<
    Field("bounding", "bounding", Vec(StringT), "Vec::is_empty", FALSE),
    Field("effective", "effective", Vec(StringT), "Vec::is_empty", FALSE),
    Field("inheritable", "inheritable", Vec(StringT), "Vec::is_empty", TRUE),
    Field("permitted", "permitted", Vec(StringT), "Vec::is_empty", FALSE),
    Field("ambient", "ambient", Vec(StringT), "Vec::is_empty", TRUE)
  >>

\* struct ConsoleSizeBox (lib.rs 118-125)
ConsoleSizeBoxFields ==
  <<
    Field("height", "height", U32, "", FALSE),
    Field("width", "width", U32, "", FALSE)
  >>

\* struct User (lib.rs 128-141)
UserFields ==
  <<
    Field("uid", "uid", U32, "", FALSE),
    Field("gid", "gid", U32, "", FALSE),
    Field("umask", "umask", Option(U32), "Option::is_none", FALSE),
    Field("additional_gids", "additionalGids", Vec(U32), "Vec::is_empty", TRUE)
  >>

\* struct Root (lib.rs 144-152)
RootFields ==
  <<
    Field("path", "path", StringT, "", FALSE),
    Field("readonly", "readonly", Option(BoolT), "Option::is_none", FALSE)
  >>

\* struct Mount (lib.rs 155-169)
MountFields ==
  <<
    Field("destination", "destination", StringT, "", FALSE),
    Field("mount_type", "type", Option(StringT), "Option::is_none", FALSE),
    Field("source", "source", Option(StringT), "Option::is_none", FALSE),
    Field("options", "options", Vec(StringT), "Vec::is_empty", TRUE)
  >>

\* struct Hook (lib.rs 172-182)
HookFields ==
  <<
    Field("path", "path", StringT, "", FALSE),
    Field("args", "args", Vec(StringT), "Vec::is_empty", FALSE),
    Field("env", "env", Vec(StringT), "Vec::is_empty", FALSE),
    Field("timeout", "timeout", Option(I32), "Option::is_none", FALSE)
  >>

\* struct Hooks (lib.rs 186-213)
HooksFields ==
  <<
    Field("prestart", "prestart", Vec(Struct("Hook")), "Vec::is_empty", TRUE),
    Field("create_runtime", "createRuntime", Vec(Struct("Hook")), "Vec::is_empty", TRUE),
    Field("create_container", "createContainer", Vec(Struct("Hook")), "Vec::is_empty", TRUE),
    Field("start_container", "startContainer", Vec(Struct("Hook")), "Vec::is_empty", TRUE),
    Field("poststart", "poststart", Vec(StringT), "Vec::is_empty", TRUE),
    Field("poststop", "poststop", Vec(StringT), "Vec::is_empty", TRUE)
  >>

\* struct Linux (lib.rs 216-265)
LinuxFields ==
  <<
    Field("uid_mappings", "uidMappings", Vec(Struct("LinuxIDMapping")), "Vec::is_empty", TRUE),
    Field("gid_mappings", "gidMappings", Vec(Struct("LinuxIDMapping")), "Vec::is_empty", TRUE),
    Field("sysctl", "sysctl", HashMapOf(StringT), "HashMap::is_empty", TRUE),
    Field("resources", "resources", Option(Struct("LinuxResources")), "Option::is_none", FALSE),
    Field("cgroups_path", "cgroupsPath", Option(StringT), "Option::is_none", FALSE),
    Field("namespaces", "namespaces", Vec(Struct("LinuxNamespace")), "Vec::is_empty", FALSE),
    Field("devices", "devices", Vec(Struct("LinuxDevice")), "Vec::is_empty", FALSE),
    Field("seccomp", "seccomp", Option(Struct("LinuxSeccomp")), "Option::is_none", FALSE),
    Field("rootfs_propagation", "rootfsPropagation", Option(StringT), "Option::is_none", FALSE),
    Field("masked_paths", "maskedPaths", Vec(StringT), "Vec::is_empty", FALSE),
    Field("readonly_paths", "readonlyPaths", Vec(StringT), "Vec::is_empty", FALSE),
    Field("mount_label", "mountLabel", Option(StringT), "Option::is_none", FALSE),
    Field("intel_rdt", "intelRdt", Option(Struct("LinuxIntelRdt")), "Option::is_none", FALSE),
    Field("personality", "personality", Option(Struct("LinuxPersonality")), "Option::is_none", FALSE)
  >>

\* struct LinuxNamespace (lib.rs 268-278)
LinuxNamespaceFields ==
  <<
    Field("namespace_type", "type", StringT, "", FALSE),
    Field("path", "path", Option(StringT), "Option::is_none", FALSE)
  >>

\* struct LinuxIDMapping (lib.rs 281-292)
LinuxIDMappingFields ==
  <<
    Field("container_id", "containerID", U32, "", FALSE),
    Field("host_id", "hostID", U32, "", FALSE),
    Field("size", "size", U32, "", FALSE)
  >>

\* struct POSIXRlimit (lib.rs 295-305)
POSIXRlimitFields ==
  <<
    Field("rlimit_type", "type", StringT, "", FALSE),
    Field("hard", "hard", U64, "", FALSE),
    Field("soft", "soft", U64, "", FALSE)
  >>

\* struct LinuxHugepageLimit (lib.rs 308-317)
LinuxHugepageLimitFields ==
  <<
    Field("page_size", "pageSize", StringT, "", FALSE),
    Field("limit", "limit", U64, "", FALSE)
  >>

\* struct LinuxInterfacePriority (lib.rs 320-327)
LinuxInterfacePriorityFields ==
  <<
    Field("name", "name", StringT, "", FALSE),
    Field("priority", "priority", U32, "", FALSE)
  >>

\* struct LinuxWeightDevice (lib.rs 330-343)
LinuxWeightDeviceFields ==
  <<
    Field("major", "major", I64, "", FALSE),
    Field("minor", "minor", I64, "", FALSE),
    Field("weight", "weight", Option(U16), "Option::is_none", FALSE),
    Field("leaf_weight", "leafWeight", Option(U16), "Option::is_none", FALSE)
  >>

\* struct LinuxThrottleDevice (lib.rs 346-355)
LinuxThrottleDeviceFields ==
  <<
    Field("major", "major", I64, "", FALSE),
    Field("minor", "minor", I64, "", FALSE),
    Field("rate", "rate", U64, "", FALSE)
  >>

\* struct LinuxBlockIO (lib.rs 358-394)
LinuxBlockIOFields ==
  <<
    Field("weight", "weight", Option(U16), "Option::is_none", FALSE),
    Field("leaf_weight", "leafWeight", Option(U16), "Option::is_none", FALSE),
    Field("weight_device", "weightDevice", Vec(Struct("LinuxWeightDevice")), "Vec::is_empty", FALSE),
    Field("throttle_read_bps_device", "throttleReadBpsDevice", Vec(Struct("LinuxThrottleDevice")), "Vec::is_empty", FALSE),
    Field("throttle_write_bps_device", "throttleWriteBpsDevice", Vec(Struct("LinuxThrottleDevice")), "Vec::is_empty", FALSE),
    Field("throttle_read_iops_device", "throttleReadIOPSDevice", Vec(Struct("LinuxThrottleDevice")), "Vec::is_empty", FALSE),
    Field("throttle_write_iops_device", "throttleWriteIOPSDevice", Vec(Struct("LinuxThrottleDevice")), "Vec::is_empty", FALSE)
  >>

\* struct LinuxMemory (lib.rs 397-424)
LinuxMemoryFields ==
  <<
    Field("limit", "limit", Option(I64), "Option::is_none", FALSE),
    Field("reservation", "reservation", Option(I64), "Option::is_none", FALSE),
    Field("swap", "swap", Option(I64), "Option::is_none", FALSE),
    Field("kernel", "kernel", Option(I64), "Option::is_none", FALSE),
    Field("kernel_tcp", "kernelTCP", Option(I64), "Option::is_none", FALSE),
    Field("swappiness", "swappiness", Option(I64), "Option::is_none", FALSE),
    Field("disable_oom_killer", "disableOOMKiller", Option(BoolT), "Option::is_none", FALSE),
    Field("use_hierarchy", "useHierarchy", Option(BoolT), "Option::is_none", FALSE)
  >>

\* struct LinuxCPU (lib.rs 427-451)
LinuxCPUFields ==
  <<
    Field("shares", "shares", Option(U64), "Option::is_none", FALSE),
    Field("quota", "quota", Option(I64), "Option::is_none", FALSE),
    Field("period", "period", Option(U64), "Option::is_none", FALSE),
    Field("realtime_runtime", "realtimeRuntime", Option(I64), "Option::is_none", FALSE),
    Field("realtime_period", "realtimePeriod", Option(U64), "Option::is_none", FALSE),
    Field("cpus", "cpus", Option(StringT), "Option::is_none", FALSE),
    Field("mems", "mems", Option(StringT), "Option::is_none", FALSE)
  >>

\* struct LinuxPids (lib.rs 454-459)
LinuxPidsFields ==
  <<
    Field("limit", "limit", I64, "", FALSE)
  >>

\* struct LinuxNetwork (lib.rs 462-471)
LinuxNetworkFields ==
  <<
    Field("class_id", "classID", Option(U32), "Option::is_none", FALSE),
    Field("priorities", "priorities", Vec(Struct("LinuxInterfacePriority")), "Vec::is_empty", FALSE)
  >>

\* struct LinuxRdma (lib.rs 474-483)
LinuxRdmaFields ==
  <<
    Field("hca_handles", "hcaHandles", Option(U32), "Option::is_none", FALSE),
    Field("hca_objects", "hcaObjects", Option(U32), "Option::is_none", FALSE)
  >>

\* struct LinuxResources (lib.rs 486-515)
LinuxResourcesFields ==
  <<
    Field("devices", "devices", Vec(Struct("LinuxDeviceCgroup")), "Vec::is_empty", FALSE),
    Field("memory", "memory", Option(Struct("LinuxMemory")), "Option::is_none", FALSE),
    Field("cpu", "cpu", Option(Struct("LinuxCPU")), "Option::is_none", FALSE),
    Field("pids", "pids", Option(Struct("LinuxPids")), "Option::is_none", FALSE),
    Field("block_io", "blockIO", Option(Struct("LinuxBlockIO")), "Option::is_none", FALSE),
    Field("hugepage_limits", "hugepageLimits", Vec(Struct("LinuxHugepageLimit")), "Vec::is_empty", TRUE),
    Field("network", "network", Option(Struct("LinuxNetwork")), "Option::is_none", FALSE),
    Field("rdma", "rdma", HashMapOf(Struct("LinuxRdma")), "HashMap::is_empty", TRUE)
  >>

\* struct LinuxDevice (lib.rs 518-539)
LinuxDeviceFields ==
  <<
    Field("path", "path", StringT, "", FALSE),
    Field("device_type", "type", StringT, "", FALSE),
    Field("major", "major", I64, "", FALSE),
    Field("minor", "minor", I64, "", FALSE),
    Field("file_mode", "fileMode", Option(U32), "Option::is_none", FALSE),
    Field("uid", "uid", Option(U32), "Option::is_none", FALSE),
    Field("gid", "gid", Option(U32), "Option::is_none", FALSE)
  >>

\* struct LinuxDeviceCgroup (lib.rs 542-559)
LinuxDeviceCgroupFields ==
  <<
    Field("allow", "allow", BoolT, "", FALSE),
    Field("device_type", "type", Option(StringT), "Option::is_none", FALSE),
    Field("major", "major", Option(I64), "Option::is_none", FALSE),
    Field("minor", "minor", Option(I64), "Option::is_none", FALSE),
    Field("access", "access", Option(StringT), "Option::is_none", FALSE)
  >>

\* struct LinuxPersonality (lib.rs 562-570)
LinuxPersonalityFields ==
  <<
    Field("domain", "domain", StringT, "", FALSE),
    Field("flags", "flags", Vec(StringT), "Vec::is_empty", FALSE)
  >>

\* struct LinuxSeccomp (lib.rs 573-584)
LinuxSeccompFields ==
  <<
    Field("default_action", "defaultAction", StringT, "", FALSE),
    Field("architectures", "architectures", Vec(StringT), "Vec::is_empty", FALSE),
    Field("flags", "flags", Vec(StringT), "Vec::is_empty", TRUE),
    Field("syscalls", "syscalls", Vec(Struct("LinuxSyscall")), "Vec::is_empty", FALSE)
  >>

\* struct LinuxSeccompArg (lib.rs 587-595)
LinuxSeccompArgFields ==
  <<
    Field("index", "index", U64, "", FALSE),
    Field("value", "value", U64, "", FALSE),
    Field("value_two", "valueTwo", Option(U64), "Option::is_none", FALSE),
    Field("op", "op", StringT, "", FALSE)
  >>

\* struct LinuxSyscall (lib.rs 598-605)
LinuxSyscallFields ==
  <<
    Field("names", "names", Vec(StringT), "", FALSE),
    Field("action", "action", StringT, "", FALSE),
    Field("args", "args", Vec(StringT), "Vec::is_empty", FALSE)
  >>

\* struct LinuxIntelRdt (lib.rs 609-625)
LinuxIntelRdtFields ==
  <<
    Field("clos_id", "closID", Option(StringT), "Option::is_none", FALSE),
    Field("l3_cache_schema", "l3CacheSchema", Option(StringT), "Option::is_none", FALSE),
    Field("mem_bw_schema", "memBwSchema", Option(StringT), "Option::is_none", FALSE)
  >>

StructNames ==
  {"Spec", "Process", "LinuxCapabilities", "ConsoleSizeBox",
   "User", "Root", "Mount", "Hook",
   "Hooks", "Linux", "LinuxNamespace", "LinuxIDMapping",
   "POSIXRlimit", "LinuxHugepageLimit", "LinuxInterfacePriority", "LinuxWeightDevice",
   "LinuxThrottleDevice", "LinuxBlockIO", "LinuxMemory", "LinuxCPU",
   "LinuxPids", "LinuxNetwork", "LinuxRdma", "LinuxResources",
   "LinuxDevice", "LinuxDeviceCgroup", "LinuxPersonality", "LinuxSeccomp",
   "LinuxSeccompArg", "LinuxSyscall", "LinuxIntelRdt"}

\* The structs whose builder has the struct-level `default`: build() fills an
\* unset field from the struct's Default instead of failing.
BuilderDefault ==
  {"Spec", "Process", "LinuxCapabilities", "ConsoleSizeBox",
   "User", "Root", "Mount", "Hook",
   "Hooks", "Linux", "LinuxNamespace", "LinuxIDMapping",
   "POSIXRlimit", "LinuxHugepageLimit", "LinuxInterfacePriority", "LinuxWeightDevice",
   "LinuxThrottleDevice", "LinuxBlockIO", "LinuxMemory", "LinuxCPU",
   "LinuxPids", "LinuxNetwork", "LinuxRdma", "LinuxResources",
   "LinuxDevice", "LinuxDeviceCgroup", "LinuxPersonality", "LinuxSeccomp",
   "LinuxSeccompArg", "LinuxSyscall", "LinuxIntelRdt"}

\* Every struct denying unknown fields.
DenyUnknownFieldsEverywhere == StructNames

\* The structs with #[serde(deny_unknown_fields)].
DenyUnknownFields ==
  {}

Fields(name) ==
  CASE name = "Spec" -> SpecFields
    [] name = "Process" -> ProcessFields
    [] name = "LinuxCapabilities" -> LinuxCapabilitiesFields
    [] name = "ConsoleSizeBox" -> ConsoleSizeBoxFields
    [] name = "User" -> UserFields
    [] name = "Root" -> RootFields
    [] name = "Mount" -> MountFields
    [] name = "Hook" -> HookFields
    [] name = "Hooks" -> HooksFields
    [] name = "Linux" -> LinuxFields
    [] name = "LinuxNamespace" -> LinuxNamespaceFields
    [] name = "LinuxIDMapping" -> LinuxIDMappingFields
    [] name = "POSIXRlimit" -> POSIXRlimitFields
    [] name = "LinuxHugepageLimit" -> LinuxHugepageLimitFields
    [] name = "LinuxInterfacePriority" -> LinuxInterfacePriorityFields
    [] name = "LinuxWeightDevice" -> LinuxWeightDeviceFields
    [] name = "LinuxThrottleDevice" -> LinuxThrottleDeviceFields
    [] name = "LinuxBlockIO" -> LinuxBlockIOFields
    [] name = "LinuxMemory" -> LinuxMemoryFields
    [] name = "LinuxCPU" -> LinuxCPUFields
    [] name = "LinuxPids" -> LinuxPidsFields
    [] name = "LinuxNetwork" -> LinuxNetworkFields
    [] name = "LinuxRdma" -> LinuxRdmaFields
    [] name = "LinuxResources" -> LinuxResourcesFields
    [] name = "LinuxDevice" -> LinuxDeviceFields
    [] name = "LinuxDeviceCgroup" -> LinuxDeviceCgroupFields
    [] name = "LinuxPersonality" -> LinuxPersonalityFields
    [] name = "LinuxSeccomp" -> LinuxSeccompFields
    [] name = "LinuxSeccompArg" -> LinuxSeccompArgFields
    [] name = "LinuxSyscall" -> LinuxSyscallFields
    [] name = "LinuxIntelRdt" -> LinuxIntelRdtFields

FieldNames(name) == {Fields(name)[i].name : i \in DOMAIN Fields(name)}
FieldKeys(name) == {Fields(name)[i].key : i \in DOMAIN Fields(name)}
FieldNamed(name, n) ==
  Fields(name)[CHOOSE i \in DOMAIN Fields(name) : Fields(name)[i].name = n]

(***************************************************************************)
(* Integers.  An integer is a sign and a magnitude in 16-bit limbs, least  *)
(* significant first, without leading zero limbs, so that the widths up to *)
(* 64 bits are exact.  In memory zero is never negative; on the wire "-0"  *)
(* is the literal serde_json reads as a float.                             *)
(***************************************************************************)
LimbBase == 2^16
Num(neg, mag) == [neg |-> neg, mag |-> mag]
Zero == Num(FALSE, <<>>)
One == Num(FALSE, <<1>>)
MinusOne == Num(TRUE, <<1>>)
U16Max == Num(FALSE, <<LimbBase - 1>>)
U32Max == Num(FALSE, <<LimbBase - 1, LimbBase - 1>>)
TwoTo16 == Num(FALSE, <<0, 1>>)
TwoTo32 == Num(FALSE, <<0, 0, 1>>)
I32Min == Num(TRUE, <<0, 2^15>>)
TwoTo31 == Num(FALSE, <<0, 2^15>>)
NegZero == Num(TRUE, <<>>)

Bits(k) ==
  CASE k = "u16" -> 16
    [] k \in {"u32", "i32"} -> 32
    [] k \in {"u64", "i64"} -> 64
Signed(k) == k \in {"i32", "i64"}

\* A conversion that takes any integer literal.
FitsUnchecked(k, n) == TRUE

\* Whether the integer literal n converts to the integer type k.
Fits(k, n) ==
  LET L == Bits(k) \div 16
      len == Len(n.mag)
  IN  IF n.neg /\ len = 0 THEN FALSE
      ELSE IF ~Signed(k) THEN ~n.neg /\ len <= L
      ELSE \/ len < L
           \/ len = L /\ n.mag[L] < 2^15
           \/ /\ n.neg /\ len = L /\ n.mag[L] = 2^15
              /\ \A i \in 1..(L - 1) : n.mag[i] = 0

(***************************************************************************)
(* In-memory values: an integer is a Num, a String a string, a bool a      *)
(* BOOLEAN, an Option<T> the sequence <<>> (None) or <<x>> (Some(x)), a     *)
(* Vec<T> a sequence, a HashMap<String, T> a function on its keys, and a   *)
(* struct a function on its field identifiers.                             *)
(***************************************************************************)
None == <<>>
Some(x) == <<x>>
EmptyMap == [x \in {} |-> <<>>]

\* derive(Default)
RECURSIVE DefaultOf(_)
DefaultOf(ty) ==
  CASE ty.k \in IntKinds -> Zero
    [] ty.k = "bool" -> FALSE
    [] ty.k = "string" -> ""
    [] ty.k = "opt" -> None
    [] ty.k = "vec" -> <<>>
    [] ty.k = "map" -> EmptyMap
    [] ty.k = "rec" -> [n \in FieldNames(ty.of) |-> DefaultOf(FieldNamed(ty.of, n).ty)]

(***************************************************************************)
(* derive(Builder) with #[builder(default, setter(into))]: the builder     *)
(* holds one Option slot per field; a setter stores Some(value.into()) in  *)
(* its own slot; build() takes each set slot and, for an unset one, the    *)
(* field of the struct's Default, and returns Ok.                          *)
(***************************************************************************)
NewBuilder(name) == [n \in FieldNames(name) |-> None]

\* A setter that starts over from a fresh builder.
SetterClobbers(b, n, x) == [m \in DOMAIN b |-> IF m = n THEN Some(x) ELSE None]

\* A setter that keeps a value already set.
SetterKeepsFirst(b, n, x) == IF b[n] = None THEN [b EXCEPT ![n] = Some(x)] ELSE b

Setter(b, n, x) == [b EXCEPT ![n] = Some(x)]

Ok(v) == [ok |-> TRUE, v |-> v]
BuilderError == [ok |-> FALSE, v |-> "UninitializedField"]

\* derive_builder without the struct-level default: an unset field is the
\* error UninitializedField.
buildRequiringEveryField(name, b) ==
  IF \E n \in FieldNames(name) : b[n] = None
    THEN BuilderError
    ELSE Ok([n \in FieldNames(name) |-> b[n][1]])

build(name, b) ==
  LET dflt == DefaultOf(Struct(name))
  IN  IF name \notin BuilderDefault /\ \E n \in FieldNames(name) : b[n] = None
        THEN BuilderError
        ELSE Ok([n \in FieldNames(name) |-> IF b[n] # None THEN b[n][1] ELSE dflt[n]])

(***************************************************************************)
(* JSON values (serde_json::Value).  t says which of the fields holds the   *)
(* value: b a boolean, n an integer literal, s a string (or the text of a  *)
(* literal with a fraction or exponent), a the elements of an array, o an  *)
(* object as a function on its keys.                                       *)
(***************************************************************************)
Json(t, b, n, s, a, o) == [t |-> t, b |-> b, n |-> n, s |-> s, a |-> a, o |-> o]
JNull == Json("null", FALSE, Zero, "", <<>>, EmptyMap)
JBool(b) == Json("bool", b, Zero, "", <<>>, EmptyMap)
JNum(n) == Json("num", FALSE, n, "", <<>>, EmptyMap)
JFloat == Json("float", FALSE, Zero, "1.5", <<>>, EmptyMap)
JStr(s) == Json("str", FALSE, Zero, s, <<>>, EmptyMap)
JArr(a) == Json("arr", FALSE, Zero, "", a, EmptyMap)
JObj(o) == Json("obj", FALSE, Zero, "", <<>>, o)

\* A skip predicate that also drops a field holding its type's Default.
SkippedWhenDefault(f, x) == x = DefaultOf(f.ty)

\* skip_serializing_if
Skipped(f, x) ==
  CASE f.skip = "Option::is_none" -> x = None
    [] f.skip = "Vec::is_empty" -> Len(x) = 0
    [] f.skip = "HashMap::is_empty" -> DOMAIN x = {}
    [] OTHER -> FALSE

\* derive(Serialize), through serde_json
RECURSIVE Serialize(_, _)
Serialize(ty, x) ==
  CASE ty.k \in IntKinds -> JNum(x)
    [] ty.k = "bool" -> JBool(x)
    [] ty.k = "string" -> JStr(x)
    [] ty.k = "opt" -> IF x = None THEN JNull ELSE Serialize(ty.of, x[1])
    [] ty.k = "vec" -> JArr([i \in DOMAIN x |-> Serialize(ty.of, x[i])])
    [] ty.k = "map" -> JObj([key \in DOMAIN x |-> Serialize(ty.of, x[key])])
    [] ty.k = "rec" ->
         LET fs == Fields(ty.of)
             emitted == {i \in DOMAIN fs : ~Skipped(fs[i], x[fs[i].name])}
         IN  JObj([key \in {fs[i].key : i \in emitted} |->
                    LET f == fs[CHOOSE i \in emitted : fs[i].key = key]
                    IN  Serialize(f.ty, x[f.name])])

DecodeError == [ok |-> FALSE, v |-> "DecodeError"]

RECURSIVE Deserialize(_, _)

\* A missing field that is always filled with its type's Default.
MissingFieldFilled(f) == Ok(DefaultOf(f.ty))

\* A field whose key the object lacks: serde's `default` attribute gives the
\* type's Default, an Option without it is None, anything else is the error
\* "missing field".
MissingField(f) ==
  IF f.dflt THEN Ok(DefaultOf(f.ty))
  ELSE IF f.ty.k = "opt" THEN Ok(None)
  ELSE DecodeError

\* A visit_map that gives a field whose value does not convert its Default.
VisitMapLenient(name, obj) ==
  LET fs == Fields(name)
      got == [i \in DOMAIN fs |->
                IF fs[i].key \in DOMAIN obj
                  THEN LET r == Deserialize(fs[i].ty, obj[fs[i].key])
                       IN  IF r.ok THEN r ELSE Ok(DefaultOf(fs[i].ty))
                  ELSE MissingField(fs[i])]
  IN  IF \A i \in DOMAIN fs : got[i].ok
        THEN Ok([n \in FieldNames(name) |->
                  got[CHOOSE i \in DOMAIN fs : fs[i].name = n].v])
        ELSE DecodeError

\* A visit_map that matches keys against the field identifiers.
VisitMapByIdentifier(name, obj) ==
  LET fs == Fields(name)
      got == [i \in DOMAIN fs |->
                IF fs[i].name \in DOMAIN obj
                  THEN Deserialize(fs[i].ty, obj[fs[i].name])
                  ELSE MissingField(fs[i])]
  IN  IF \A i \in DOMAIN fs : got[i].ok
        THEN Ok([n \in FieldNames(name) |->
                  got[CHOOSE i \in DOMAIN fs : fs[i].name = n].v])
        ELSE DecodeError

\* The derived visitor's visit_map: keys are matched against the wire keys;
\* any other key is skipped unless the struct denies unknown fields.
VisitMap(name, obj) ==
  LET fs == Fields(name)
      got == [i \in DOMAIN fs |->
                IF fs[i].key \in DOMAIN obj
                  THEN Deserialize(fs[i].ty, obj[fs[i].key])
                  ELSE MissingField(fs[i])]
  IN  IF /\ name \in DenyUnknownFields => DOMAIN obj \subseteq FieldKeys(name)
         /\ \A i \in DOMAIN fs : got[i].ok
        THEN Ok([n \in FieldNames(name) |->
                  got[CHOOSE i \in DOMAIN fs : fs[i].name = n].v])
        ELSE DecodeError

\* The derived visitor's visit_seq: serde_json hands a JSON array to it, the
\* elements are the fields in declaration order; a field past the end of the
\* array is its Default when it has the `default` attribute and the error
\* "invalid length" otherwise; elements left over are an error.
VisitSeq(name, arr) ==
  LET fs == Fields(name)
      got == [i \in DOMAIN fs |->
                IF i <= Len(arr) THEN Deserialize(fs[i].ty, arr[i])
                ELSE IF fs[i].dflt THEN Ok(DefaultOf(fs[i].ty))
                ELSE DecodeError]
  IN  IF Len(arr) <= Len(fs) /\ \A i \in DOMAIN fs : got[i].ok
        THEN Ok([n \in FieldNames(name) |->
                  got[CHOOSE i \in DOMAIN fs : fs[i].name = n].v])
        ELSE DecodeError

\* derive(Deserialize), through serde_json
Deserialize(ty, j) ==
  CASE ty.k \in IntKinds ->
         IF j.t = "num" /\ Fits(ty.k, j.n) THEN Ok(j.n) ELSE DecodeError
    [] ty.k = "bool" -> IF j.t = "bool" THEN Ok(j.b) ELSE DecodeError
    [] ty.k = "string" -> IF j.t = "str" THEN Ok(j.s) ELSE DecodeError
    [] ty.k = "opt" ->
         IF j.t = "null" THEN Ok(None)
         ELSE LET r == Deserialize(ty.of, j)
              IN  IF r.ok THEN Ok(Some(r.v)) ELSE DecodeError
    [] ty.k = "vec" ->
         IF j.t # "arr" THEN DecodeError
         ELSE LET rs == [i \in DOMAIN j.a |-> Deserialize(ty.of, j.a[i])]
              IN  IF \A i \in DOMAIN rs : rs[i].ok
                    THEN Ok([i \in DOMAIN rs |-> rs[i].v])
                    ELSE DecodeError
    [] ty.k = "map" ->
         IF j.t # "obj" THEN DecodeError
         ELSE LET rs == [key \in DOMAIN j.o |-> Deserialize(ty.of, j.o[key])]
              IN  IF \A key \in DOMAIN rs : rs[key].ok
                    THEN Ok([key \in DOMAIN rs |-> rs[key].v])
                    ELSE DecodeError
    [] ty.k = "rec" ->
         IF j.t = "obj" THEN VisitMap(ty.of, j.o)
         ELSE IF j.t = "arr" THEN VisitSeq(ty.of, j.a)
         ELSE DecodeError

encode(name, x) == Serialize(Struct(name), x)
decode(name, j) == Deserialize(Struct(name), j)

(***************************************************************************)
(* Bounds and the values the environment supplies.                         *)
(***************************************************************************)
MaxSetterCalls == 2
MaxEdits == 1

\* A value of type ty none of whose parts is the default: every field of a
\* struct set, every Option present, every sequence and mapping inhabited.
RECURSIVE Busy(_)
Busy(ty) ==
  CASE ty.k \in IntKinds -> IF Signed(ty.k) THEN MinusOne ELSE One
    [] ty.k = "bool" -> TRUE
    [] ty.k = "string" -> "a"
    [] ty.k = "opt" -> Some(Busy(ty.of))
    [] ty.k = "vec" -> <<Busy(ty.of)>>
    [] ty.k = "map" -> [key \in {"k"} |-> Busy(ty.of)]
    [] ty.k = "rec" -> [n \in FieldNames(ty.of) |-> Busy(FieldNamed(ty.of, n).ty)]

\* Setter arguments of type ty: the default and the busy value, and an
\* Option, sequence or mapping of either.
RECURSIVE Samples(_)
Samples(ty) ==
  CASE ty.k = "opt" -> {None} \cup {Some(x) : x \in Samples(ty.of)}
    [] ty.k = "vec" -> {<<>>} \cup {<<x>> : x \in Samples(ty.of)}
    [] ty.k = "map" -> {EmptyMap} \cup {[key \in {"k"} |-> x] : x \in Samples(ty.of)}
    [] OTHER -> {DefaultOf(ty), Busy(ty)}

\* JSON text that spells out every field of x, the absent and empty ones as
\* null, [] and {}.
RECURSIVE Explicit(_, _)
Explicit(ty, x) ==
  CASE ty.k = "opt" -> IF x = None THEN JNull ELSE Explicit(ty.of, x[1])
    [] ty.k = "vec" -> JArr([i \in DOMAIN x |-> Explicit(ty.of, x[i])])
    [] ty.k = "map" -> JObj([key \in DOMAIN x |-> Explicit(ty.of, x[key])])
    [] ty.k = "rec" ->
         LET fs == Fields(ty.of)
         IN  JObj([key \in FieldKeys(ty.of) |->
                    LET f == fs[CHOOSE i \in DOMAIN fs : fs[i].key = key]
                    IN  Explicit(f.ty, x[f.name])])
    [] OTHER -> Serialize(ty, x)

\* Whether values of type ty hold a struct.
RECURSIVE HasStruct(_)
HasStruct(ty) ==
  CASE ty.k = "rec" -> TRUE
    [] ty.k \in {"opt", "vec", "map"} -> HasStruct(ty.of)
    [] OTHER -> FALSE

\* A value of type ty with a Default struct in it.
RECURSIVE Populated(_)
Populated(ty) ==
  CASE ty.k = "opt" -> Some(Populated(ty.of))
    [] ty.k = "vec" -> <<Populated(ty.of)>>
    [] ty.k = "map" -> [key \in {"k"} |-> Populated(ty.of)]
    [] OTHER -> DefaultOf(ty)

\* The struct `name` with every field that holds no struct busy.
Scalars(name) ==
  [n \in FieldNames(name) |->
     LET ty == FieldNamed(name, n).ty
     IN  IF HasStruct(ty) THEN DefaultOf(ty) ELSE Busy(ty)]

\* The minimal configuration of the runtime specification's documentation.
Scenario ==
  JObj([key \in {"ociVersion", "process", "root"} |->
    CASE key = "ociVersion" -> JStr("1.0.2")
      [] key = "process" ->
           JObj([k2 \in {"user", "cwd"} |->
             IF k2 = "cwd" THEN JStr("/")
             ELSE JObj([k3 \in {"uid", "gid"} |-> JNum(Zero)])])
      [] key = "root" -> JObj([k2 \in {"path"} |-> JStr("/rootfs")])])

\* Input texts for the struct `name`: its default spelled out and as encode
\* gives it, its scalar fields busy, one nested struct present, and for Spec
\* the minimal configuration.
Inputs(name) ==
  LET fs == Fields(name)
      dflt == DefaultOf(Struct(name))
  IN  {Explicit(Struct(name), dflt), encode(name, dflt), encode(name, Scalars(name))}
      \cup {Explicit(Struct(name), [dflt EXCEPT ![fs[i].name] = Populated(fs[i].ty)])
              : i \in {i \in DOMAIN fs : HasStruct(fs[i].ty)}}
      \cup IF name = "Spec" THEN {Scenario} ELSE {}

\* Values an edit of the input text puts in place of a node.
JsonSamples ==
  {JNull, JBool(TRUE), JNum(MinusOne), JNum(NegZero), JNum(TwoTo16), JNum(TwoTo32), JFloat,
   JStr("a"), JArr(<<>>), JArr(<<JStr("a"), JNull>>), JObj(EmptyMap)}

ExtraKeys == {"x-extra", "console_size"}

\* The identifiers of the struct `name` that are not wire keys of it: those
\* of its renamed fields.
RenamedIdentifiers(name) == FieldNames(name) \ FieldKeys(name)

IndexName(i) == <<"#1", "#2", "#3", "#4">>[i]

RECURSIVE Nodes(_)
Nodes(j) ==
  {<<>>} \cup
  CASE j.t = "obj" -> UNION {{<<key>> \o p : p \in Nodes(j.o[key])} : key \in DOMAIN j.o}
    [] j.t = "arr" -> UNION {{<<IndexName(i)>> \o p : p \in Nodes(j.a[i])} : i \in DOMAIN j.a}
    [] OTHER -> {}

RECURSIVE NodeAt(_, _)
NodeAt(j, p) ==
  IF p = <<>> THEN j
  ELSE IF j.t = "obj" THEN NodeAt(j.o[Head(p)], Tail(p))
  ELSE NodeAt(j.a[CHOOSE i \in DOMAIN j.a : IndexName(i) = Head(p)], Tail(p))

RECURSIVE ReplaceAt(_, _, _)
ReplaceAt(j, p, val) ==
  IF p = <<>> THEN val
  ELSE IF j.t = "obj"
    THEN JObj([j.o EXCEPT ![Head(p)] = ReplaceAt(@, Tail(p), val)])
    ELSE JArr([j.a EXCEPT ![CHOOSE i \in DOMAIN j.a : IndexName(i) = Head(p)] =
                 ReplaceAt(@, Tail(p), val)])

\* The nodes of j that derive(Deserialize) reads as a struct from an object,
\* each with the struct's name.
RECURSIVE StructNodes(_, _)
StructNodes(ty, j) ==
  CASE ty.k = "rec" /\ j.t = "obj" ->
         LET fs == Fields(ty.of)
         IN  {<<<<>>, ty.of>>} \cup
             UNION {{<<<<fs[i].key>> \o pn[1], pn[2]>>
                       : pn \in StructNodes(fs[i].ty, j.o[fs[i].key])}
                     : i \in {i \in DOMAIN fs : fs[i].key \in DOMAIN j.o}}
    [] ty.k = "rec" /\ j.t = "arr" ->
         LET fs == Fields(ty.of)
         IN  UNION {{<<<<IndexName(i)>> \o pn[1], pn[2]>>
                       : pn \in StructNodes(fs[i].ty, j.a[i])}
                     : i \in DOMAIN fs \cap DOMAIN j.a}
    [] ty.k = "opt" /\ j.t # "null" -> StructNodes(ty.of, j)
    [] ty.k = "vec" /\ j.t = "arr" ->
         UNION {{<<<<IndexName(i)>> \o pn[1], pn[2]>>
                   : pn \in StructNodes(ty.of, j.a[i])} : i \in DOMAIN j.a}
    [] ty.k = "map" /\ j.t = "obj" ->
         UNION {{<<<<key>> \o pn[1], pn[2]>>
                   : pn \in StructNodes(ty.of, j.o[key])} : key \in DOMAIN j.o}
    [] OTHER -> {}

(***************************************************************************)
(* State.  struct names the struct the program works on; builder is its    *)
(* Builder;                                                                *)
(* history the setter calls made; built what build() returned; wire the    *)
(* JSON text produced by encode or received as input; decoded what decode  *)
(* returned for wire; prior what it returned before the last edit of wire; *)
(* rewire the text encode gives for the decoded value; edits and edit the  *)
(* number of edits made to the input and the last one.                     *)
(***************************************************************************)
VARIABLES pc, struct, builder, history, built, wire, decoded, prior, rewire, edits, edit
vars == <<pc, struct, builder, history, built, wire, decoded, prior, rewire, edits, edit>>

NoResult == [ok |-> FALSE, v |-> "none"]
NoJson == Json("none", FALSE, Zero, "", <<>>, EmptyMap)
NoEdit == [op |-> "none", at |-> <<>>, key |-> "", of |-> ""]

\* ---- building, encoding and decoding back -------------------------------

Init ==
  /\ pc = "building"
  /\ struct \in StructNames
  /\ builder = NewBuilder(struct)
  /\ history = <<>>
  /\ built = NoResult
  /\ wire = NoJson
  /\ decoded = NoResult
  /\ prior = NoResult
  /\ rewire = NoJson
  /\ edits = 0
  /\ edit = NoEdit

Set ==
  /\ pc = "building"
  /\ Len(history) < MaxSetterCalls
  /\ \E n \in FieldNames(struct) :
       \E x \in Samples(FieldNamed(struct, n).ty) :
         /\ builder' = Setter(builder, n, x)
         /\ history' = Append(history, <<n, x>>)
  /\ UNCHANGED <<pc, struct, built, wire, decoded, prior, rewire, edits, edit>>

Build ==
  /\ pc = "building"
  /\ built' = build(struct, builder)
  /\ pc' = "built"
  /\ UNCHANGED <<struct, builder, history, wire, decoded, prior, rewire, edits, edit>>

Encode ==
  /\ pc = "built"
  /\ built.ok
  /\ wire' = encode(struct, built.v)
  /\ pc' = "encoded"
  /\ UNCHANGED <<struct, builder, history, built, decoded, prior, rewire, edits, edit>>

Decode ==
  /\ pc \in {"encoded", "received", "edited"}
  /\ decoded' = decode(struct, wire)
  /\ pc' = "decoded"
  /\ UNCHANGED <<struct, builder, history, built, wire, prior, rewire, edits, edit>>

Next ==
  \/ Set
  \/ Build
  \/ Encode
  \/ Decode

Spec == Init /\ [][Next]_vars

\* ---- decoding input text ------------------------------------------------

InitDecode ==
  /\ pc = "received"
  /\ struct \in StructNames
  /\ builder = NewBuilder(struct)
  /\ history = <<>>
  /\ built = NoResult
  /\ wire \in Inputs(struct)
  /\ decoded = NoResult
  /\ prior = NoResult
  /\ rewire = NoJson
  /\ edits = 0
  /\ edit = NoEdit

CanEdit == pc = "decoded" /\ edits < MaxEdits

Edited(text, e) ==
  /\ wire' = text
  /\ edit' = e
  /\ edits' = edits + 1
  /\ prior' = decoded
  /\ decoded' = NoResult
  /\ pc' = "edited"
  /\ UNCHANGED <<struct, builder, history, built, rewire>>

\* The input gains a key that the struct read at that place does not have.
AddKey ==
  /\ CanEdit
  /\ \E pn \in StructNodes(Struct(struct), wire) :
       \E key \in (ExtraKeys \cup RenamedIdentifiers(pn[2]))
                    \ (FieldKeys(pn[2]) \cup DOMAIN NodeAt(wire, pn[1]).o) :
         \E val \in JsonSamples :
           LET o == NodeAt(wire, pn[1]).o
           IN  Edited(ReplaceAt(wire, pn[1],
                                JObj([k2 \in DOMAIN o \cup {key} |->
                                        IF k2 = key THEN val ELSE o[k2]])),
                      [op |-> "add", at |-> pn[1], key |-> key, of |-> pn[2]])

\* The input loses a key of one of its objects.
RemoveKey ==
  /\ CanEdit
  /\ \E p \in {q \in Nodes(wire) : NodeAt(wire, q).t = "obj"} :
       LET o == NodeAt(wire, p).o
       IN  \E key \in DOMAIN o :
             Edited(ReplaceAt(wire, p, JObj([k2 \in DOMAIN o \ {key} |-> o[k2]])),
                    [op |-> "remove", at |-> p, key |-> key, of |-> ""])

\* A node of the input becomes another value.
Replace ==
  /\ CanEdit
  /\ \E p \in Nodes(wire) :
       \E val \in JsonSamples \ {NodeAt(wire, p)} :
         Edited(ReplaceAt(wire, p, val),
                [op |-> "replace", at |-> p, key |-> "", of |-> ""])

Reencode ==
  /\ pc = "decoded"
  /\ decoded.ok
  /\ rewire = NoJson
  /\ rewire' = encode(struct, decoded.v)
  /\ UNCHANGED <<pc, struct, builder, history, built, wire, decoded, prior, edits, edit>>

NextDecode ==
  \/ Decode
  \/ Reencode
  \/ AddKey
  \/ RemoveKey
  \/ Replace

SpecDecode == InitDecode /\ [][NextDecode]_vars


(***************************************************************************)
(* Properties.                                                             *)
(***************************************************************************)

\* Whether x is the all-defaults value of type ty: zero, false, the empty
\* string, sequence or mapping, absent, or a struct of all-defaults fields.
RECURSIVE IsAllDefaults(_, _)
IsAllDefaults(ty, x) ==
  CASE ty.k \in IntKinds -> x = Zero
    [] ty.k = "bool" -> x = FALSE
    [] ty.k = "string" -> x = ""
    [] ty.k = "opt" -> x = None
    [] ty.k = "vec" -> Len(x) = 0
    [] ty.k = "map" -> DOMAIN x = {}
    [] ty.k = "rec" ->
         \A i \in DOMAIN Fields(ty.of) :
           IsAllDefaults(Fields(ty.of)[i].ty, x[Fields(ty.of)[i].name])

\* Whether x is an absent optional, an empty sequence or an empty mapping.
IsEmpty(ty, x) ==
  CASE ty.k = "opt" -> x = None
    [] ty.k = "vec" -> Len(x) = 0
    [] ty.k = "map" -> DOMAIN x = {}
    [] OTHER -> FALSE

\* Whether the integer literal n is a value of the integer type k.
InDeclaredRange(k, n) ==
  LET L == IF k = "u16" THEN 1 ELSE IF k \in {"u32", "i32"} THEN 2 ELSE 4
      len == Len(n.mag)
  IN  IF k \in {"u16", "u32", "u64"}
        THEN ~n.neg /\ len <= L
        ELSE /\ ~(n.neg /\ len = 0)
             /\ \/ len < L
                \/ len = L /\ n.mag[L] < 32768
                \/ n.neg /\ len = L /\ n.mag[L] = 32768 /\ \A i \in 1..(L - 1) : n.mag[i] = 0

\* Whether the JSON value j is of the declared type ty, wherever a field's
\* key is present.
RECURSIVE WellTyped(_, _)
WellTyped(ty, j) ==
  CASE ty.k \in IntKinds -> j.t = "num" /\ InDeclaredRange(ty.k, j.n)
    [] ty.k = "bool" -> j.t = "bool"
    [] ty.k = "string" -> j.t = "str"
    [] ty.k = "opt" -> j.t = "null" \/ WellTyped(ty.of, j)
    [] ty.k = "vec" -> j.t = "arr" /\ \A i \in DOMAIN j.a : WellTyped(ty.of, j.a[i])
    [] ty.k = "map" -> j.t = "obj" /\ \A key \in DOMAIN j.o : WellTyped(ty.of, j.o[key])
    [] ty.k = "rec" ->
         /\ j.t = "obj"
         /\ \A i \in DOMAIN Fields(ty.of) :
              Fields(ty.of)[i].key \in DOMAIN j.o =>
                WellTyped(Fields(ty.of)[i].ty, j.o[Fields(ty.of)[i].key])

\* WellTyped, and every field that is not an optional, a sequence or a
\* mapping is present.
RECURSIVE Conforms(_, _)
Conforms(ty, j) ==
  CASE ty.k = "opt" -> j.t = "null" \/ Conforms(ty.of, j)
    [] ty.k = "vec" -> j.t = "arr" /\ \A i \in DOMAIN j.a : Conforms(ty.of, j.a[i])
    [] ty.k = "map" -> j.t = "obj" /\ \A key \in DOMAIN j.o : Conforms(ty.of, j.o[key])
    [] ty.k = "rec" ->
         /\ j.t = "obj"
         /\ \A i \in DOMAIN Fields(ty.of) :
              LET f == Fields(ty.of)[i]
              IN  IF f.key \in DOMAIN j.o THEN Conforms(f.ty, j.o[f.key])
                  ELSE f.ty.k \in {"opt", "vec", "map"}
    [] OTHER -> WellTyped(ty, j)

\* C1: a value obtained from the builder, encoded and decoded again, decodes
\* successfully to a value equal to it field by field.
RoundTrip ==
  (pc = "decoded" /\ built.ok) => decoded.ok /\ decoded.v = built.v

\* C2: decoding an object that lacks the key of an optional, sequence or
\* mapping field, its other fields present and well-typed, succeeds and leaves
\* that field absent or empty.
MissingOptionalDecode ==
  (pc = "decoded" /\ Conforms(Struct(struct), wire)) =>
    /\ decoded.ok
    /\ \A i \in DOMAIN Fields(struct) :
         Fields(struct)[i].key \notin DOMAIN wire.o =>
           IsAllDefaults(Fields(struct)[i].ty, decoded.v[Fields(struct)[i].name])

\* C3: the minimal configuration decodes to a Spec with version "1.0.2",
\* process.user.uid 0, no args, root.readonly absent, no mounts and no linux,
\* and encoding that Spec again gives the same object.
ConcreteScenario ==
  (struct = "Spec" /\ wire = Scenario /\ pc = "decoded") =>
    /\ decoded.ok
    /\ decoded.v["version"] = "1.0.2"
    /\ decoded.v["process"] # None
    /\ decoded.v["process"][1]["user"]["uid"] = Zero
    /\ Len(decoded.v["process"][1]["args"]) = 0
    /\ decoded.v["root"] # None
    /\ decoded.v["root"][1]["readonly"] = None
    /\ Len(decoded.v["mounts"]) = 0
    /\ decoded.v["linux"] = None
    /\ rewire # NoJson => rewire = wire

\* Whether the encoding j of x has no key for an absent optional, an empty
\* sequence or an empty mapping, in x and in the structs inside it.
RECURSIVE OmitsEmpty(_, _, _)
OmitsEmpty(ty, x, j) ==
  CASE ty.k = "opt" -> x = None \/ OmitsEmpty(ty.of, x[1], j)
    [] ty.k = "vec" -> \A i \in DOMAIN x : OmitsEmpty(ty.of, x[i], j.a[i])
    [] ty.k = "map" -> \A key \in DOMAIN x : OmitsEmpty(ty.of, x[key], j.o[key])
    [] ty.k = "rec" ->
         \A i \in DOMAIN Fields(ty.of) :
           LET f == Fields(ty.of)[i]
           IN  IF IsEmpty(f.ty, x[f.name]) THEN f.key \notin DOMAIN j.o
               ELSE f.key \in DOMAIN j.o => OmitsEmpty(f.ty, x[f.name], j.o[f.key])
    [] OTHER -> TRUE

\* C4: the encoded object has no key for a field that holds an absent
\* optional, an empty sequence or an empty mapping, for every field of every
\* struct; a default Mount encodes to exactly {"destination": ""}.
OmissionRule ==
  pc = "encoded" =>
    /\ OmitsEmpty(Struct(struct), built.v, wire)
    /\ (struct = "Mount" /\ Len(history) = 0) =>
         wire = JObj([key \in {"destination"} |-> JStr("")])

\* C5: an object that decodes successfully, extended with a key the struct
\* does not have (at the top or in a nested struct), decodes successfully to
\* the same record.
UnknownFieldTolerance ==
  (pc = "decoded" /\ edit.op = "add" /\ prior.ok) =>
    decoded.ok /\ decoded.v = prior.v

UnknownFieldAdded ==
  /\ pc = "decoded" /\ edit.op = "add" /\ Len(edit.at) > 0
  /\ prior.ok /\ decoded.ok

\* The builder after the setter calls h, made in order on a fresh builder.
RECURSIVE Replay(_, _)
Replay(name, h) ==
  IF Len(h) = 0 THEN NewBuilder(name)
  ELSE Setter(Replay(name, SubSeq(h, 1, Len(h) - 1)), h[Len(h)][1], h[Len(h)][2])

Swapped(h, i) ==
  [k \in DOMAIN h |-> IF k = i THEN h[i + 1] ELSE IF k = i + 1 THEN h[i] ELSE h[k]]

\* C6: setting two distinct fields in either order on a fresh builder and
\* finalizing yields the same record.
BuilderIndependence ==
  pc = "built" =>
    \A i \in 1..(Len(history) - 1) :
      history[i][1] # history[i + 1][1] =>
        LET r == build(struct, Replay(struct, Swapped(history, i)))
        IN  r.ok = built.ok /\ (r.ok => r.v = built.v)

TwoFieldsSet ==
  /\ pc = "built" /\ built.ok /\ Len(history) = 2
  /\ history[1][1] # history[2][1]
  /\ ~IsAllDefaults(FieldNamed(struct, history[1][1]).ty, built.v[history[1][1]])
  /\ ~IsAllDefaults(FieldNamed(struct, history[2][1]).ty, built.v[history[2][1]])

\* C7: finalizing a builder returns a record, never an error, after any
\* sequence of setter calls.
BuildNeverFails ==
  pc = "built" => built.ok

ProcessBuiltWithoutUserAndCwd ==
  /\ pc = "built" /\ struct = "Process" /\ Len(history) > 0
  /\ builder["user"] = None /\ builder["cwd"] = None
  /\ built.ok

WasSet(h, n) == \E i \in DOMAIN h : h[i][1] = n
LastSet(h, n) ==
  h[CHOOSE i \in DOMAIN h : h[i][1] = n /\ \A k \in DOMAIN h : h[k][1] = n => k <= i][2]

\* C8: every builder slot holds the value of the last setter call for its
\* field and is unset when there was none; the finalized record's field is
\* that last value, and the all-defaults value when the field was never set.
SetterOverwriteAndFrame ==
  /\ \A n \in FieldNames(struct) :
       builder[n] = IF WasSet(history, n) THEN Some(LastSet(history, n)) ELSE None
  /\ pc = "built" =>
       /\ built.ok
       /\ \A n \in FieldNames(struct) :
            IF WasSet(history, n) THEN built.v[n] = LastSet(history, n)
            ELSE IsAllDefaults(FieldNamed(struct, n).ty, built.v[n])

FieldSetTwice ==
  /\ pc = "built" /\ Len(history) = 2
  /\ history[1][1] = history[2][1]
  /\ history[1][2] # history[2][2]
  /\ built.v[history[2][1]] = history[2][2]

\* C9 as stated: decoding fails whenever a present field's value is not of
\* the declared type.
TypeMismatchFails ==
  (pc = "decoded" /\ ~WellTyped(Struct(struct), wire)) => ~decoded.ok

\* WellTyped, except that a struct is also read from a JSON array whose
\* elements are of the types of the struct's fields in declaration order.
RECURSIVE WellTypedOrPositional(_, _)
WellTypedOrPositional(ty, j) ==
  CASE ty.k = "opt" -> j.t = "null" \/ WellTypedOrPositional(ty.of, j)
    [] ty.k = "vec" ->
         j.t = "arr" /\ \A i \in DOMAIN j.a : WellTypedOrPositional(ty.of, j.a[i])
    [] ty.k = "map" ->
         j.t = "obj" /\ \A key \in DOMAIN j.o : WellTypedOrPositional(ty.of, j.o[key])
    [] ty.k = "rec" ->
         LET fs == Fields(ty.of)
         IN  \/ /\ j.t = "obj"
                /\ \A i \in DOMAIN fs :
                     fs[i].key \in DOMAIN j.o =>
                       WellTypedOrPositional(fs[i].ty, j.o[fs[i].key])
             \/ /\ j.t = "arr"
                /\ \A i \in DOMAIN fs \cap DOMAIN j.a :
                     WellTypedOrPositional(fs[i].ty, j.a[i])
    [] OTHER -> WellTyped(ty, j)

\* C9, amended: decoding fails whenever a present field's value is not of the
\* declared type, a JSON array in the place of a struct counting as the struct
\* when its elements are of the types of the fields in declaration order.
TypeMismatchFailsUnlessPositional ==
  (pc = "decoded" /\ ~WellTypedOrPositional(Struct(struct), wire)) => ~decoded.ok

UidOutOfRangeRejected ==
  /\ pc = "decoded" /\ struct = "User" /\ edit.op = "replace" /\ edit.at = <<"uid">>
  /\ wire.o["uid"] = JNum(TwoTo32)
  /\ prior.ok /\ ~decoded.ok

\* Whether the record x holds, for every field present in j, the value that
\* j gives it, each such value being one that decodes.
RECURSIVE Reflects(_, _, _)
Reflects(ty, j, x) ==
  CASE ty.k \in IntKinds -> j.t = "num" /\ x = j.n
    [] ty.k = "bool" -> j.t = "bool" /\ x = j.b
    [] ty.k = "string" -> j.t = "str" /\ x = j.s
    [] ty.k = "opt" ->
         IF j.t = "null" THEN x = None ELSE x # None /\ Reflects(ty.of, j, x[1])
    [] ty.k = "vec" ->
         /\ j.t = "arr" /\ Len(x) = Len(j.a)
         /\ \A i \in DOMAIN j.a :
              Deserialize(ty.of, j.a[i]).ok /\ Reflects(ty.of, j.a[i], x[i])
    [] ty.k = "map" ->
         /\ j.t = "obj" /\ DOMAIN x = DOMAIN j.o
         /\ \A key \in DOMAIN j.o :
              Deserialize(ty.of, j.o[key]).ok /\ Reflects(ty.of, j.o[key], x[key])
    [] ty.k = "rec" ->
         LET fs == Fields(ty.of)
         IN  \/ /\ j.t = "obj"
                /\ \A i \in DOMAIN fs :
                     fs[i].key \in DOMAIN j.o =>
                       /\ Deserialize(fs[i].ty, j.o[fs[i].key]).ok
                       /\ Reflects(fs[i].ty, j.o[fs[i].key], x[fs[i].name])
             \/ /\ j.t = "arr"
                /\ \A i \in DOMAIN fs \cap DOMAIN j.a :
                     /\ Deserialize(fs[i].ty, j.a[i]).ok
                     /\ Reflects(fs[i].ty, j.a[i], x[fs[i].name])

\* C10: decode returns a record only when every field present anywhere in
\* the input decodes, and the record then holds each of them as given: none
\* is dropped or replaced by its default.
AllOrNothing ==
  (pc = "decoded" /\ decoded.ok) => Reflects(Struct(struct), wire, decoded.v)

NestedUidFailsSpec ==
  /\ pc = "decoded" /\ struct = "Spec" /\ edit.op = "replace"
  /\ edit.at = <<"process", "user", "uid">>
  /\ prior.ok /\ ~decoded.ok


\* Whether the encoding j of x has a key for every field that is not an
\* optional, a sequence or a mapping, in x and in the structs inside it.
RECURSIVE EmitsRequired(_, _, _)
EmitsRequired(ty, x, j) ==
  CASE ty.k = "opt" -> x = None \/ EmitsRequired(ty.of, x[1], j)
    [] ty.k = "vec" ->
         j.t = "arr" /\ \A i \in DOMAIN x : EmitsRequired(ty.of, x[i], j.a[i])
    [] ty.k = "map" ->
         j.t = "obj" /\ \A key \in DOMAIN x : EmitsRequired(ty.of, x[key], j.o[key])
    [] ty.k = "rec" ->
         /\ j.t = "obj"
         /\ \A i \in DOMAIN Fields(ty.of) :
              LET f == Fields(ty.of)[i]
              IN  /\ f.ty.k \notin {"opt", "vec", "map"} => f.key \in DOMAIN j.o
                  /\ f.key \in DOMAIN j.o => EmitsRequired(f.ty, x[f.name], j.o[f.key])
    [] OTHER -> TRUE

\* C11: every field that is not an optional, a sequence or a mapping is a key
\* of the encoded object, whatever it holds, zero and the empty string
\* included, for every struct and in the structs nested in the value.
RequiredAlwaysEmitted ==
  pc = "encoded" => EmitsRequired(Struct(struct), built.v, wire)

ZeroUidAndGidEmitted ==
  /\ pc = "encoded" /\ struct = "User"
  /\ built.v["uid"] = Zero /\ built.v["gid"] = Zero
  /\ {"uid", "gid"} \subseteq DOMAIN wire.o
  /\ wire.o["uid"].t = "num" /\ wire.o["uid"].n = Zero

\* The field of the struct `name` whose wire key is key.
FieldKeyed(name, key) ==
  Fields(name)[CHOOSE i \in DOMAIN Fields(name) : Fields(name)[i].key = key]

\* Whether the last edit took from the top-level object the key of a sequence
\* or mapping field that the object gave as [] or {}.
EmptyCollectionRemoved ==
  /\ edit.op = "remove" /\ edit.at = <<>>
  /\ edit.key \in FieldKeys(struct)
  /\ FieldKeyed(struct, edit.key).ty.k \in {"vec", "map"}
  /\ prior.ok
  /\ IsEmpty(FieldKeyed(struct, edit.key).ty, prior.v[FieldKeyed(struct, edit.key).name])

\* C12: an object that decodes with a sequence or mapping field given as []
\* or {} decodes, with that key absent, successfully and to the same record,
\* the field being empty.
EmptyVersusAbsent ==
  (pc = "decoded" /\ EmptyCollectionRemoved) =>
    /\ decoded.ok
    /\ decoded.v = prior.v

\* The wire keys the specification names for renamed fields.
RenameTable ==
  /\ FieldNamed("Spec", "version").key = "ociVersion"
  /\ FieldNamed("Process", "console_size").key = "consoleSize"
  /\ FieldNamed("Process", "oom_score_adj").key = "oomScoreAdj"
  /\ FieldNamed("Linux", "uid_mappings").key = "uidMappings"
  /\ FieldNamed("Hooks", "create_runtime").key = "createRuntime"
  /\ FieldNamed("LinuxIntelRdt", "clos_id").key = "closID"
  /\ FieldNamed("LinuxRdma", "hca_handles").key = "hcaHandles"
  /\ FieldNamed("Mount", "mount_type").key = "type"

\* No two fields of a struct have the same wire key.
KeysDistinct ==
  \A name \in StructNames :
    \A i, k \in DOMAIN Fields(name) :
      Fields(name)[i].key = Fields(name)[k].key => i = k

\* The decoded record x takes each field from the field's wire key in the
\* object j and from nowhere else: a field whose key j lacks is left at its
\* default, whatever other keys j has.
DecodedByKey(name, j, x) ==
  \A i \in DOMAIN Fields(name) :
    LET f == Fields(name)[i]
    IN  IF f.key \in DOMAIN j.o
          THEN Reflects(f.ty, j.o[f.key], x[f.name])
          ELSE IsAllDefaults(f.ty, x[f.name])

\* The object j has exactly the wire keys of the fields of x that are not
\* skipped, each holding the encoding of its field.
EncodedByKey(name, x, j) ==
  /\ j.t = "obj"
  /\ DOMAIN j.o \subseteq FieldKeys(name)
  /\ \A i \in DOMAIN Fields(name) :
       LET f == Fields(name)[i]
       IN  IF Skipped(f, x[f.name]) THEN f.key \notin DOMAIN j.o
           ELSE f.key \in DOMAIN j.o /\ j.o[f.key] = Serialize(f.ty, x[f.name])

\* C13: every field is encoded under and decoded from its wire key of the
\* static table (ociVersion, consoleSize, oomScoreAdj, uidMappings,
\* createRuntime, closID, hcaHandles, type), no two fields of a struct share
\* a key, and the identifier of a renamed field is not read as its key.
NameMapping ==
  /\ RenameTable
  /\ KeysDistinct
  /\ (pc = "decoded" /\ decoded.ok /\ wire.t = "obj") =>
       DecodedByKey(struct, wire, decoded.v)
  /\ (pc = "decoded" /\ decoded.ok /\ rewire # NoJson /\ edits = 0) =>
       EncodedByKey(struct, decoded.v, rewire)

IdentifierNotReadAsKey ==
  /\ pc = "decoded" /\ struct = "LinuxIntelRdt"
  /\ edit.op = "add" /\ edit.at = <<>> /\ edit.key = "clos_id"
  /\ wire.o["clos_id"] = JStr("a")
  /\ "closID" \notin DOMAIN wire.o
  /\ decoded.ok /\ decoded.v["clos_id"] = None

\* Whether the field f must be given: it is not an optional, a sequence or a
\* mapping, and has no serde `default`.
Required(f) == f.ty.k \notin {"opt", "vec", "map"} /\ ~f.dflt

\* Whether some object of j that is read as a struct lacks the key of a
\* required field of that struct.
LacksRequired(name, j) ==
  \E pn \in StructNodes(Struct(name), j) :
    \E i \in DOMAIN Fields(pn[2]) :
      /\ Required(Fields(pn[2])[i])
      /\ Fields(pn[2])[i].key \notin DOMAIN NodeAt(j, pn[1]).o

\* C14: decoding an object that lacks the key of a required field (ociVersion
\* in Spec, user or cwd in Process, uid or gid in User, destination in Mount,
\* path in Root, ...) fails, whatever the other keys hold; the field is never
\* filled with zero or the empty string.
MissingRequiredFails ==
  (pc = "decoded" /\ LacksRequired(struct, wire)) => ~decoded.ok

CwdRemovedFromProcess ==
  /\ pc = "decoded" /\ struct = "Process"
  /\ edit.op = "remove" /\ edit.at = <<>> /\ edit.key = "cwd"
  /\ DOMAIN wire.o = FieldKeys("Process") \ {"cwd"}
  /\ prior.ok /\ ~decoded.ok

\* Whether the field f is an Option of a bool, an integer or a String.
OptionalScalar(f) ==
  f.ty.k = "opt" /\ f.ty.of.k \in IntKinds \cup {"bool", "string"}

\* Whether some object of j that is read as a struct lacks the key of a field
\* that is not an Option and has no serde `default`.
LacksUndefaulted(name, j) ==
  \E pn \in StructNodes(Struct(name), j) :
    \E i \in DOMAIN Fields(pn[2]) :
      /\ Fields(pn[2])[i].ty.k # "opt" /\ ~Fields(pn[2])[i].dflt
      /\ Fields(pn[2])[i].key \notin DOMAIN NodeAt(j, pn[1]).o

\* C15: for every optional scalar field, encode omits the key exactly when
\* the field is absent; a value that is present and false, 0 or "" is emitted
\* under the key and the encoded record decodes to one that holds the field
\* present with that value.
PresentZeroRoundTrip ==
  pc \in {"encoded", "decoded"} =>
    \A i \in DOMAIN Fields(struct) :
      LET f == Fields(struct)[i]
          x == built.v[f.name]
      IN  OptionalScalar(f) =>
            /\ x = None <=> f.key \notin DOMAIN wire.o
            /\ x # None => wire.o[f.key] = Serialize(f.ty.of, x[1])
            /\ (pc = "decoded" /\ x = Some(DefaultOf(f.ty.of))) =>
                 decoded.ok /\ decoded.v[f.name] = x

\* What holds of C15: the key is omitted exactly when the field is absent, the
\* emitted value decodes to present-with-that-value, a decoded record holds
\* the field as built, and a decode that returns no record is the error of a
\* missing key of another field.
PresentZeroNotAbsent ==
  pc \in {"encoded", "decoded"} =>
    \A i \in DOMAIN Fields(struct) :
      LET f == Fields(struct)[i]
          x == built.v[f.name]
      IN  OptionalScalar(f) =>
            /\ x = None <=> f.key \notin DOMAIN wire.o
            /\ x # None =>
                 /\ wire.o[f.key] = Serialize(f.ty.of, x[1])
                 /\ Deserialize(f.ty, wire.o[f.key]).ok
                 /\ Deserialize(f.ty, wire.o[f.key]).v = x
            /\ pc = "decoded" =>
                 IF decoded.ok THEN decoded.v[f.name] = x
                 ELSE LacksUndefaulted(struct, wire)
=============================================================================
